---- MODULE Spec2Model ----
(***************************************************************************)
(* Model of the perp account value comparator:                             *)
(*   scripts/extraction_data.py   fetch both sources, align, diff, write   *)
(*   scripts/normalize_data.py    ledger fetch, flow extraction, gap       *)
(*                                normalization, write                     *)
(*                                                                         *)
(* Numbers.  An account value or a ledger amount is a Python float.  It is *)
(* modelled as an exact decimal, counted in units of 1e-6 / Micro, so that *)
(* round(x, 6) is a real rounding (to a multiple of Micro) and not the     *)
(* identity.  A percentage is kept as the exact fraction 100 * abs / denom *)
(* until it is rounded; a stored pct counts units of 1e-4 percent.         *)
(* Binary floating-point error of + and / is not modelled.                 *)
(*                                                                         *)
(* Absent values.  Python's None is the empty tuple, a present value x is  *)
(* the 1-tuple <<x>>.                                                      *)
(***************************************************************************)
EXTENDS Integers, Sequences, FiniteSets, TLC

VARIABLES
    pc,            \* position of the pipeline (which script, which step)
    current,       \* extraction: the day fetch_artemis_data is at
    idx,           \* index of the address the running loop is at
    artemis_data,  \* extraction: address -> date -> records (Source A)
    hl_data,       \* extraction: address -> date -> records (Source B)
    payload,       \* extraction: the portfolio response last received
    result,        \* extraction: what build_comparison returned
    raw_file,      \* comparison_output.json
    norm_file,     \* comparison_output_normalized.json
    data,          \* normalization: the document loaded from INPUT_FILE
    ledger,        \* the ledger source: address -> its events
    log,           \* normalization: the path taken per address this run
    run,           \* number of the normalization run (1, 2)
    first,         \* what the first normalization run produced
    events_in,     \* extract_flows alone: its argument
    flows_out,     \* extract_flows alone: what it returned
    window_in,     \* build_comparison alone: the window and the observations
    window_out,    \* build_comparison alone: the address results
    ledger_in,     \* get_all_ledger_events alone: the ledger and the range
    events_out,    \* get_all_ledger_events alone: what it returned
    series_in,     \* analyse alone: the document it is given
    stats_out,     \* analyse alone: its counts and its points
    pair_in,       \* two runs side by side: what each is given
    pair_out,      \* two runs side by side: what each leaves for an address
    diff_in,       \* the diff formula alone: the values it is given
    diff_out       \* the diff formula alone: the diffs and their buckets

vars == <<pc, current, idx, artemis_data, hl_data, payload, result,
          raw_file, norm_file, data, ledger, log, run, first, events_in, flows_out,
          window_in, window_out, ledger_in, events_out, series_in, stats_out,
          pair_in, pair_out, diff_in, diff_out>>

(* the variables of the functions taken alone, which the pipeline leaves *)
flow_vars == <<events_in, flows_out, window_in, window_out, ledger_in, events_out,
               series_in, stats_out, pair_in, pair_out, diff_in, diff_out>>

----------------------------------------------------------------------------
(* Bounds of the model *)

Micro == 10          \* model units per 1e-6 (one more decimal than round(.,6) keeps)
DayMs == 2           \* milliseconds per calendar day
DAYS == 1            \* length of the window (32 in the source)
MaxLines == 2        \* snapshot lines downloaded for one day
MaxPoints == 2       \* points of one accountValueHistory
MaxEvents == 2       \* events the ledger source holds, all addresses together
PageLimit == 2       \* page size of userNonFundingLedgerUpdates (2000 in the source)
MaxFlowEvents == 2   \* length of an event list handed to extract_flows alone
MaxWindow == 3       \* longest window handed to build_comparison alone
MaxLedger == 4       \* events of a ledger handed to get_all_ledger_events alone
MaxSeries == 2       \* entries of the first series of a document handed to analyse
MaxValue == 5        \* largest magnitude of a value handed to the diff formula alone

----------------------------------------------------------------------------
(* Generic helpers *)

None == <<>>
Some(x) == <<x>>

RECURSIVE SeqsUpTo(_, _)
SeqsUpTo(S, n) ==
    IF n = 0 THEN {<<>>}
    ELSE LET shorter == SeqsUpTo(S, n - 1)
         IN  shorter \cup {Append(s, x) : s \in {t \in shorter : Len(t) = n - 1}, x \in S}

RECURSIVE SumSeq(_)
SumSeq(s) == IF s = <<>> THEN 0 ELSE Head(s) + SumSeq(Tail(s))

Abs(x) == IF x < 0 THEN -x ELSE x
Max2(x, y) == IF x >= y THEN x ELSE y

(* A tagged JSON scalar: a number, a missing key, or something float()/int()
   cannot convert.                                                          *)
Num(n) == [tag |-> "num", val |-> n]
Absent == [tag |-> "absent", val |-> 0]
Bad == [tag |-> "bad", val |-> 0]

----------------------------------------------------------------------------
(* Rounding *)

(* Python round(x, 6): nearest multiple of Micro, a tie to the even one. *)
round6(x) ==
    LET q == x \div Micro
        r == x % Micro
    IN  IF 2 * r < Micro THEN q * Micro
        ELSE IF 2 * r > Micro THEN (q + 1) * Micro
        ELSE IF q % 2 = 0 THEN q * Micro ELSE (q + 1) * Micro

(* <<floor(n * 10^k / d), remainder>> by long division, d > 0, n >= 0. *)
RECURSIVE ScaledDiv(_, _, _)
ScaledDiv(n, d, k) ==
    IF k = 0 THEN <<n \div d, n % d>>
    ELSE LET p == ScaledDiv(n, d, k - 1)
         IN  <<p[1] * 10 + (p[2] * 10) \div d, (p[2] * 10) % d>>

(* Python round(abs_diff / denom * 100, 4), in units of 1e-4 percent. *)
round4_pct(abs_diff, denom) ==
    IF denom = 0 THEN 0
    ELSE LET p == ScaledDiv(abs_diff, denom, 6)
             q == p[1]
             r == p[2]
         IN  IF 2 * r < denom THEN q
             ELSE IF 2 * r > denom THEN q + 1
             ELSE IF q % 2 = 0 THEN q ELSE q + 1

(* pct_diff < 0.5 on the unrounded percentage (0.0 when denom = 0). *)
pct_below_threshold(abs_diff, denom) ==
    IF denom = 0 THEN TRUE ELSE abs_diff * 100 * 2 < denom

----------------------------------------------------------------------------
(* Time window (extraction_data.py) *)

END_DATE == DAYS + 1                 \* "today"; day 0 lies before the look-back
START_DATE == END_DATE - (DAYS - 1)
hl_start == START_DATE - 1

date_of(ts_ms) == ts_ms \div DayMs

(* a build_comparison that reads Source B from the bucket of the same day *)
same_date_str(date_str) == date_str

(* strptime(date_str) - timedelta(days=1), formatted back *)
prev_date_str(date_str) == date_str - 1

(* cur = START_DATE; while cur <= END_DATE: dates.append(cur); cur += 1 day *)
RECURSIVE window_dates(_, _)
window_dates(cur, end) ==
    IF cur <= end THEN <<cur>> \o window_dates(cur + 1, end) ELSE <<>>

dates == window_dates(START_DATE, END_DATE)

Addresses == <<"a1", "a2">>

lower(s) == IF s = "A1" THEN "a1" ELSE IF s = "A2" THEN "a2" ELSE s

----------------------------------------------------------------------------
(* Nested dicts address -> date -> list, as defaultdict builds them *)

EmptyDict == <<>>

bucket(d, addr, date) ==
    IF addr \in DOMAIN d /\ date \in DOMAIN d[addr] THEN d[addr][date] ELSE <<>>

dict_append(d, addr, date, rec) ==
    LET inner == IF addr \in DOMAIN d THEN d[addr] ELSE <<>>
        lst == IF date \in DOMAIN inner THEN inner[date] ELSE <<>>
        inner2 == [k \in (DOMAIN inner) \cup {date} |->
                     IF k = date THEN Append(lst, rec) ELSE inner[k]]
    IN  [a \in (DOMAIN d) \cup {addr} |-> IF a = addr THEN inner2 ELSE d[a]]

----------------------------------------------------------------------------
(* Values the sources report.  ValA and ValB differ by 5e-6 of a value a    *)
(* little above 1e-3: the percentage is just below 0.5.                     *)

ValA == 1000 * Micro + 1
ValB == ValA - 5 * Micro

----------------------------------------------------------------------------
(* SOURCE A: Artemis S3 snapshots *)

Iso(n) == [tag |-> "iso", val |-> n]

Line(addr, ts, val) ==
    [kind |-> "record", address |-> addr, timestamp |-> ts, accountValue |-> val]

(* The lines a snapshot of day `day` may hold: per listed address one whose
   timestamp does not parse and one late in the day, a foreign address, a
   value that is not a number, a line that is not JSON, the metadata line.  *)
SnapshotLines(day) ==
    {Line(a, Bad, Num(0)) : a \in {"a1", "A2"}}
    \cup {Line("a1", Iso(day * DayMs + 1), Num(ValA)),
          Line("A2", Num(day * DayMs + 1), Num(ValA)),
          Line("zz", Num(day * DayMs), Num(ValA)),
          Line("a1", Num(day * DayMs), Bad),
          [kind |-> "garbage", address |-> "", timestamp |-> Bad, accountValue |-> Bad],
          [kind |-> "metadata", address |-> "", timestamp |-> Bad, accountValue |-> Bad]}

(* raw timestamp: epoch-ms number, ISO string, or unparseable (0) *)
parse_timestamp(raw_ts) ==
    IF raw_ts.tag = "num" THEN raw_ts.val
    ELSE IF raw_ts.tag = "iso" THEN raw_ts.val
    ELSE 0

(* One line of extract_wallet_data: the record it appends, or None when the
   line is skipped (not JSON, metadata, foreign address, float() raised).  *)
wallet_record(line, wallet_set) ==
    IF line.kind # "record" THEN None
    ELSE IF lower(line.address) \notin wallet_set THEN None
    ELSE IF line.accountValue.tag = "bad" THEN None
    ELSE Some([address |-> lower(line.address),
               timestamp_ms |-> parse_timestamp(line.timestamp),
               account_value |-> line.accountValue.val])

RECURSIVE extract_wallet_data(_, _)
extract_wallet_data(lines, wallet_set) ==
    IF lines = <<>> THEN <<>>
    ELSE wallet_record(Head(lines), wallet_set)
         \o extract_wallet_data(Tail(lines), wallet_set)

(* data[rec["address"]][date_str].append({timestamp_ms, account_value}) *)
RECURSIVE store_day_records(_, _, _)
store_day_records(d, date_str, recs) ==
    IF recs = <<>> THEN d
    ELSE store_day_records(
           dict_append(d, Head(recs).address, date_str,
                       [timestamp_ms |-> Head(recs).timestamp_ms,
                        account_value |-> Head(recs).account_value]),
           date_str, Tail(recs))

wallet_set_of(addresses) == {addresses[i] : i \in DOMAIN addresses}

(* One iteration of fetch_artemis_data's loop over the days.  `listed` is
   FALSE when S3 lists nothing or the listing raises; `lines` are the lines
   of the files whose download succeeded.                                  *)
FetchArtemisDay ==
    /\ pc = "x_artemis"
    /\ \E listed \in BOOLEAN, lines \in SeqsUpTo(SnapshotLines(current), MaxLines) :
         /\ listed \/ lines = <<>>
         /\ artemis_data' =
              IF listed
              THEN store_day_records(artemis_data, current,
                     extract_wallet_data(lines, wallet_set_of(Addresses)))
              ELSE artemis_data
    /\ IF current < END_DATE
       THEN current' = current + 1 /\ pc' = pc /\ idx' = idx
       ELSE current' = current /\ pc' = "x_hl" /\ idx' = 1
    /\ UNCHANGED <<hl_data, payload, result, raw_file, norm_file, data, ledger,
                   log, run, first>>
    /\ UNCHANGED flow_vars

----------------------------------------------------------------------------
(* SOURCE B: Hyperliquid portfolio API *)

Point(ts, val) == [t |-> ts, v |-> val]

(* Points a value history may hold: before the look-back day, two on every
   day used as a previous day, one on END_DATE, one after END_DATE, and a
   point whose value is not a number.                                      *)
HistoryPoints ==
    {Point(hl_start * DayMs - 1, Num(0)), Point((END_DATE + 1) * DayMs, Num(0)),
     Point(END_DATE * DayMs + 1, Num(ValB)), Point(hl_start * DayMs, Bad)}
    \cup {Point(d * DayMs, Num(0)) : d \in hl_start..(END_DATE - 1)}
    \cup {Point(d * DayMs + 1, Num(ValB)) : d \in hl_start..(END_DATE - 1)}

(* What the portfolio request gives: an exception, a payload without a
   perpMonth history, one of unexpected shape, or a history.               *)
HLResponses ==
    {[kind |-> k, history |-> <<>>] : k \in {"error", "no_perpMonth", "bad_shape"}}
    \cup {[kind |-> "ok", history |-> h] : h \in SeqsUpTo(HistoryPoints, MaxPoints)}

(* int(point[0]) or float(point[1]) raises *)
point_raises(point) == point.v.tag # "num"

in_hl_window(ts_ms) ==
    ~(date_of(ts_ms) < hl_start \/ date_of(ts_ms) > END_DATE)

(* the loop over history, for points that parse *)
RECURSIVE keep_points(_, _, _)
keep_points(d, addr, history) ==
    IF history = <<>> THEN d
    ELSE LET point == Head(history)
         IN  keep_points(
               IF in_hl_window(point.t)
               THEN dict_append(d, lower(addr), date_of(point.t),
                                [timestamp_ms |-> point.t, account_value |-> point.v.val])
               ELSE d,
               addr, Tail(history))

(* One iteration of fetch_hyperliquid_data's loop over the addresses.  A
   point that does not parse raises outside every try: the run dies.       *)
FetchHL ==
    /\ pc = "x_hl"
    /\ idx <= Len(Addresses)
    /\ \E resp \in HLResponses :
         /\ payload' = Some(resp)
         /\ IF resp.kind # "ok" \/ resp.history = <<>>
            THEN hl_data' = hl_data /\ pc' = pc /\ idx' = idx + 1
            ELSE IF \E i \in DOMAIN resp.history : point_raises(resp.history[i])
            THEN hl_data' = hl_data /\ pc' = "crashed" /\ idx' = idx
            ELSE /\ hl_data' = keep_points(hl_data, Addresses[idx], resp.history)
                 /\ pc' = pc
                 /\ idx' = idx + 1
    /\ UNCHANGED <<current, artemis_data, result, raw_file, norm_file, data,
                   ledger, log, run, first>>
    /\ UNCHANGED flow_vars

----------------------------------------------------------------------------
(* COMPARISON *)

(* max(records, key=timestamp_ms): the first record of maximal timestamp *)
pick_latest(records) ==
    IF records = <<>> THEN None
    ELSE LET top == CHOOSE i \in DOMAIN records :
                      /\ \A j \in DOMAIN records :
                           records[j].timestamp_ms <= records[i].timestamp_ms
                      /\ \A j \in 1..(i - 1) :
                           records[j].timestamp_ms < records[i].timestamp_ms
         IN  Some(records[top])

(* a diff relative to the smaller of the two magnitudes *)
raw_diff_over_smaller(art_value, hl_value) ==
    IF art_value # None /\ hl_value # None
    THEN LET abs_diff == Abs(art_value[1] - hl_value[1])
             denom == IF Abs(art_value[1]) <= Abs(hl_value[1])
                      THEN Abs(art_value[1]) ELSE Abs(hl_value[1])
         IN  [abs |-> Some(abs_diff),
              pct |-> Some(round4_pct(abs_diff, denom)),
              match |-> Some(pct_below_threshold(abs_diff, denom))]
    ELSE [abs |-> None, pct |-> None, match |-> None]

(* a diff that leaves pct and match out when the denominator is 0 *)
raw_diff_undefined_at_zero(art_value, hl_value) ==
    IF art_value # None /\ hl_value # None
    THEN LET abs_diff == Abs(art_value[1] - hl_value[1])
             denom == Max2(Abs(art_value[1]), Abs(hl_value[1]))
         IN  IF denom = 0
             THEN [abs |-> Some(abs_diff), pct |-> None, match |-> None]
             ELSE [abs |-> Some(abs_diff),
                   pct |-> Some(round4_pct(abs_diff, denom)),
                   match |-> Some(pct_below_threshold(abs_diff, denom))]
    ELSE [abs |-> None, pct |-> None, match |-> None]

(* the diff of build_comparison: abs unrounded, pct rounded to 4 decimals,
   match decided on the unrounded pct                                      *)
raw_diff(art_value, hl_value) ==
    IF art_value # None /\ hl_value # None
    THEN LET abs_diff == Abs(art_value[1] - hl_value[1])
             denom == Max2(Abs(art_value[1]), Abs(hl_value[1]))
         IN  [abs |-> Some(abs_diff),
              pct |-> Some(round4_pct(abs_diff, denom)),
              match |-> Some(pct_below_threshold(abs_diff, denom))]
    ELSE [abs |-> None, pct |-> None, match |-> None]

build_entry(addr_lower, date_str, artemis, hyperliquid) ==
    LET art_latest == pick_latest(bucket(artemis, addr_lower, date_str))
        hl_latest == pick_latest(bucket(hyperliquid, addr_lower, prev_date_str(date_str)))
        art_value == IF art_latest # None THEN Some(art_latest[1].account_value) ELSE None
        hl_value == IF hl_latest # None THEN Some(hl_latest[1].account_value) ELSE None
    IN  [date |-> date_str,
         artemis |->
           IF art_latest # None
           THEN [value |-> art_value,
                 last_timestamp |-> Some(art_latest[1].timestamp_ms)]
           ELSE [value |-> None, last_timestamp |-> None],
         hyperliquid |->
           IF hl_latest # None
           THEN [value |-> hl_value,
                 last_timestamp |-> Some(hl_latest[1].timestamp_ms),
                 source_date |-> prev_date_str(date_str)]
           ELSE [value |-> None, last_timestamp |-> None,
                 source_date |-> prev_date_str(date_str)],
         diff |-> raw_diff(art_value, hl_value)]

(* a series with entries for the dates that have an observation only *)
build_series_of_data(addr_lower, date_strs, artemis, hyperliquid) ==
    LET with_data ==
          SelectSeq(date_strs, LAMBDA d :
             \/ bucket(artemis, addr_lower, d) # <<>>
             \/ bucket(hyperliquid, addr_lower, prev_date_str(d)) # <<>>)
    IN  [j \in DOMAIN with_data |->
           build_entry(addr_lower, with_data[j], artemis, hyperliquid)]

(* the loop over the dates, for one address *)
build_series(addr_lower, date_strs, artemis, hyperliquid) ==
    [j \in DOMAIN date_strs |->
       build_entry(addr_lower, date_strs[j], artemis, hyperliquid)]

(* the loop over the addresses *)
address_results(addresses, date_strs, artemis, hyperliquid) ==
    [i \in DOMAIN addresses |->
       [address |-> lower(addresses[i]),
        series |-> build_series(lower(addresses[i]), date_strs, artemis, hyperliquid)]]

build_comparison(addresses, artemis, hyperliquid) ==
    [generated_at |-> 0,
     days |-> DAYS,
     addresses |-> address_results(addresses, dates, artemis, hyperliquid)]

(* extraction main, step 4 *)
BuildComparison ==
    /\ pc = "x_hl"
    /\ idx > Len(Addresses)
    /\ result' = Some(build_comparison(Addresses, artemis_data, hl_data))
    /\ pc' = "x_write"
    /\ UNCHANGED <<current, idx, artemis_data, hl_data, payload, raw_file,
                   norm_file, data, ledger, log, run, first>>
    /\ UNCHANGED flow_vars

(* a file that open(path, "w") has just truncated: zero bytes, no document *)
Truncated == Some([truncated |-> TRUE])

(* extraction main, step 5: open(OUTPUT_FILE, "w") *)
OpenComparison ==
    /\ pc = "x_write"
    /\ raw_file' = Truncated
    /\ pc' = "x_dump"
    /\ UNCHANGED <<current, idx, artemis_data, hl_data, payload, result, norm_file,
                   data, ledger, log, run, first>>
    /\ UNCHANGED flow_vars

(* extraction main, step 5: json.dump(result, f), the file closed, and the
   end of the process: its memory is gone                                   *)
WriteComparison ==
    /\ pc = "x_dump"
    /\ raw_file' = result
    /\ pc' = "x_done"
    /\ artemis_data' = EmptyDict
    /\ hl_data' = EmptyDict
    /\ payload' = None
    /\ result' = None
    /\ UNCHANGED <<current, idx, norm_file, data, ledger, log, run, first>>
    /\ UNCHANGED flow_vars

----------------------------------------------------------------------------
(* HL LEDGER API (normalize_data.py) *)

(* A ledger event: "time" and the fields of "delta".  type "" stands for an
   event without a type tag; an absent sourceDex/destinationDex reads "".   *)
Event(ts, typ, usdc, amount, usdcValue, src, dst, to_perp) ==
    [time |-> ts, type |-> typ, usdc |-> usdc, amount |-> amount,
     usdcValue |-> usdcValue, sourceDex |-> src, destinationDex |-> dst,
     toPerp |-> to_perp]

Deposit(ts, usdc) == Event(ts, "deposit", usdc, Absent, Absent, "", "", FALSE)
Withdraw(ts, usdc) == Event(ts, "withdraw", usdc, Absent, Absent, "", "", FALSE)
RewardsClaim(ts, amount) == Event(ts, "rewardsClaim", Absent, amount, Absent, "", "", FALSE)
Send(ts, usdcValue, amount, src, dst) ==
    Event(ts, "send", Absent, amount, usdcValue, src, dst, FALSE)
AccountClassTransfer(ts, usdc, to_perp) ==
    Event(ts, "accountClassTransfer", usdc, Absent, Absent, "", "", to_perp)

(* stable insertion into a list ascending in `time` *)
RECURSIVE insert_by_time(_, _)
insert_by_time(sorted, ev) ==
    IF sorted = <<>> THEN <<ev>>
    ELSE IF Head(sorted).time.val <= ev.time.val
         THEN <<Head(sorted)>> \o insert_by_time(Tail(sorted), ev)
         ELSE <<ev>> \o sorted

RECURSIVE sort_by_time(_)
sort_by_time(events) ==
    IF events = <<>> THEN <<>>
    ELSE insert_by_time(sort_by_time(SubSeq(events, 1, Len(events) - 1)),
                        events[Len(events)])

RECURSIVE select_range(_, _, _)
select_range(events, start_time_ms, end_time_ms) ==
    IF events = <<>> THEN <<>>
    ELSE (IF /\ Head(events).time.tag = "num"
             /\ start_time_ms <= Head(events).time.val
             /\ Head(events).time.val <= end_time_ms
          THEN <<Head(events)>> ELSE <<>>)
         \o select_range(Tail(events), start_time_ms, end_time_ms)

(* One page of userNonFundingLedgerUpdates when the request succeeds: the
   server answers with the earliest PageLimit events of the address whose
   time lies in [startTime, endTime].                                      *)
get_ledger_page(address_events, start_time_ms, end_time_ms) ==
    LET hits == sort_by_time(select_range(address_events, start_time_ms, end_time_ms))
    IN  SubSeq(hits, 1, IF Len(hits) < PageLimit THEN Len(hits) ELSE PageLimit)

(* resp.json(): the events of the n-th response.  "layout" stands for the
   order in which the response lists the keys of an event, which may differ
   from one response to the next.                                           *)
received(events, n) == [k \in DOMAIN events |-> [layout |-> n] @@ events[k]]

RECURSIVE max_time(_)
max_time(events) ==
    IF Len(events) = 1 THEN Head(events).time.val
    ELSE Max2(Head(events).time.val, max_time(Tail(events)))

(* a cursor moved past the last timestamp of the page *)
next_cursor_after(events) == max_time(events) + 1

(* cursor = max(times) *)
next_cursor(events) == max_time(events)

(* json.dumps(ev) without sort_keys: the keys in the order received *)
dumps_as_received(ev) == ev

(* json.dumps(ev, sort_keys=True): the content, whatever the key order *)
dumps_sort_keys(ev) == [f \in (DOMAIN ev) \ {"layout"} |-> ev[f]]

(* {json.dumps(ev, sort_keys=True): ev for ev in all_events}.values(): one
   entry per key, at the position of the first event of that key, holding
   the last event of that key                                               *)
RECURSIVE deduplicate(_)
deduplicate(all_events) ==
    IF all_events = <<>> THEN <<>>
    ELSE LET init == deduplicate(SubSeq(all_events, 1, Len(all_events) - 1))
             last == all_events[Len(all_events)]
         IN  IF \E i \in DOMAIN init : dumps_sort_keys(init[i]) = dumps_sort_keys(last)
             THEN [i \in DOMAIN init |->
                     IF dumps_sort_keys(init[i]) = dumps_sort_keys(last)
                     THEN last ELSE init[i]]
             ELSE Append(init, last)

(* The pagination loop, from the n-th page request on.  fail_at is the
   number of the page request that raises (0: none does).  The loop has no
   exit when a full page does not move the cursor: the same request is
   then repeated for ever ("hang") unless a later request raises.          *)
RECURSIVE ledger_loop(_, _, _, _, _, _)
ledger_loop(address_events, end_ms, cursor, all_events, n, fail_at) ==
    IF n = fail_at THEN [outcome |-> "raise", requests |-> n, events |-> <<>>]
    ELSE LET events == received(get_ledger_page(address_events, cursor, end_ms), n)
         IN  IF events = <<>>
             THEN [outcome |-> "ok", requests |-> n,
                   events |-> deduplicate(all_events)]
             ELSE IF Len(events) < PageLimit
             THEN [outcome |-> "ok", requests |-> n,
                   events |-> deduplicate(all_events \o events)]
             ELSE IF next_cursor(events) = cursor
             THEN (IF fail_at > n
                   THEN [outcome |-> "raise", requests |-> fail_at, events |-> <<>>]
                   ELSE [outcome |-> "hang", requests |-> n, events |-> <<>>])
             ELSE ledger_loop(address_events, end_ms, next_cursor(events),
                              all_events \o events, n + 1, fail_at)

get_all_ledger_events(address_events, start_ms, end_ms, fail_at) ==
    ledger_loop(address_events, end_ms, 0, <<>>, 1, fail_at)

----------------------------------------------------------------------------
(* extract_flows *)

Skip == [kind |-> "skip", ts |-> 0, amt |-> 0]
Raise == [kind |-> "raise", ts |-> 0, amt |-> 0]
Flow(ts, amt) == [kind |-> "flow", ts |-> ts, amt |-> amt]

(* flows.append((int(ts), amt)): int(ts) raises on a non-numeric time *)
append_flow(ts, amt) == IF ts.tag = "num" THEN Flow(ts.val, amt) ELSE Raise

(* delta.get("usdcValue", delta.get("amount", 0)) *)
send_amount(ev) ==
    IF ev.usdcValue.tag # "absent" THEN ev.usdcValue
    ELSE IF ev.amount.tag # "absent" THEN ev.amount
    ELSE Num(0)

(* delta.get(key, 0) *)
get_or_zero(field) == IF field.tag = "absent" THEN Num(0) ELSE field

(* a loop body that takes int(ts) before it looks at the type *)
event_flow_int_first(ev) ==
    IF ev.time.tag = "absent" THEN Skip
    ELSE IF ev.time.tag # "num" THEN Raise
    ELSE IF ev.type = "deposit"
    THEN (IF ev.usdc.tag # "num" THEN Skip ELSE append_flow(ev.time, ev.usdc.val))
    ELSE IF ev.type = "withdraw"
    THEN (IF ev.usdc.tag # "num" THEN Skip ELSE append_flow(ev.time, -ev.usdc.val))
    ELSE IF ev.type = "rewardsClaim"
    THEN (IF get_or_zero(ev.amount).tag # "num" THEN Skip
          ELSE append_flow(ev.time, get_or_zero(ev.amount).val))
    ELSE IF ev.type = "send"
    THEN (IF send_amount(ev).tag # "num" THEN Skip
          ELSE IF ev.sourceDex = "" /\ ev.destinationDex = "spot"
          THEN append_flow(ev.time, -send_amount(ev).val)
          ELSE IF ev.sourceDex = "spot" /\ ev.destinationDex = ""
          THEN append_flow(ev.time, send_amount(ev).val)
          ELSE Skip)
    ELSE IF ev.type = "accountClassTransfer"
    THEN (IF get_or_zero(ev.usdc).tag # "num" THEN Skip
          ELSE IF ev.toPerp THEN append_flow(ev.time, get_or_zero(ev.usdc).val)
          ELSE append_flow(ev.time, -get_or_zero(ev.usdc).val))
    ELSE Skip

(* The body of the loop of extract_flows for one event. *)
event_flow(ev) ==
    IF ev.time.tag = "absent" THEN Skip
    ELSE IF ev.type = "deposit"
    THEN (IF ev.usdc.tag # "num" THEN Skip ELSE append_flow(ev.time, ev.usdc.val))
    ELSE IF ev.type = "withdraw"
    THEN (IF ev.usdc.tag # "num" THEN Skip ELSE append_flow(ev.time, -ev.usdc.val))
    ELSE IF ev.type = "rewardsClaim"
    THEN (IF get_or_zero(ev.amount).tag # "num" THEN Skip
          ELSE append_flow(ev.time, get_or_zero(ev.amount).val))
    ELSE IF ev.type = "send"
    THEN (IF send_amount(ev).tag # "num" THEN Skip
          ELSE IF ev.sourceDex = "" /\ ev.destinationDex = "spot"
          THEN append_flow(ev.time, -send_amount(ev).val)
          ELSE IF ev.sourceDex = "spot" /\ ev.destinationDex = ""
          THEN append_flow(ev.time, send_amount(ev).val)
          ELSE Skip)
    ELSE IF ev.type = "accountClassTransfer"
    THEN (IF get_or_zero(ev.usdc).tag # "num" THEN Skip
          ELSE IF ev.toPerp THEN append_flow(ev.time, get_or_zero(ev.usdc).val)
          ELSE append_flow(ev.time, -get_or_zero(ev.usdc).val))
    ELSE Skip

(* flows.sort(key=lambda t: t[0]): stable *)
RECURSIVE insert_flow(_, _)
insert_flow(sorted, f) ==
    IF sorted = <<>> THEN <<f>>
    ELSE IF Head(sorted).ts <= f.ts
         THEN <<Head(sorted)>> \o insert_flow(Tail(sorted), f)
         ELSE <<f>> \o sorted

RECURSIVE sort_flows(_)
sort_flows(flows) ==
    IF flows = <<>> THEN <<>>
    ELSE insert_flow(sort_flows(SubSeq(flows, 1, Len(flows) - 1)), flows[Len(flows)])

RECURSIVE collect_flows(_)
collect_flows(events) ==
    IF events = <<>> THEN <<>>
    ELSE (IF event_flow(Head(events)).kind = "flow"
          THEN <<event_flow(Head(events))>> ELSE <<>>)
         \o collect_flows(Tail(events))

(* an extract_flows without the final sort *)
extract_flows_unsorted(events) ==
    IF \E i \in DOMAIN events : event_flow(events[i]).kind = "raise"
    THEN [raised |-> TRUE, flows |-> <<>>]
    ELSE [raised |-> FALSE, flows |-> collect_flows(events)]

(* extract_flows(events): the sorted flows, or raised when int(ts) raises *)
extract_flows(events) ==
    IF \E i \in DOMAIN events : event_flow(events[i]).kind = "raise"
    THEN [raised |-> TRUE, flows |-> <<>>]
    ELSE [raised |-> FALSE, flows |-> sort_flows(collect_flows(events))]

----------------------------------------------------------------------------
(* MAIN LOGIC of normalize_data.py *)

(* a no-timestamps branch that writes the normalized record over the raw one *)
skip_day_in_place(day) ==
    [hyperliquid |->
       [value |-> day.hyperliquid.value,
        last_timestamp |-> day.hyperliquid.last_timestamp,
        source_date |-> day.hyperliquid.source_date,
        flow_adjustment |-> 0,
        events_in_gap |-> 0],
     diff_normalized |-> day.diff] @@ day

(* The no-op normalization of one day.  The source writes it out three
   times: for an address without timestamps, after an API error, and in the
   else branch of the per-day test.                                         *)
skip_day(day) ==
    [hyperliquid_normalized |->
       [value |-> day.hyperliquid.value,
        last_timestamp |-> day.hyperliquid.last_timestamp,
        source_date |-> day.hyperliquid.source_date,
        flow_adjustment |-> 0,
        events_in_gap |-> 0],
     diff_normalized |-> day.diff] @@ day

(* an except branch that leaves the normalized diff blank *)
api_error_day_blank(day) ==
    [hyperliquid_normalized |->
       [value |-> day.hyperliquid.value,
        last_timestamp |-> day.hyperliquid.last_timestamp,
        source_date |-> day.hyperliquid.source_date,
        flow_adjustment |-> 0,
        events_in_gap |-> 0],
     diff_normalized |-> [abs |-> None, pct |-> None, match |-> None]] @@ day

api_error_day(day) ==
    [hyperliquid_normalized |->
       [value |-> day.hyperliquid.value,
        last_timestamp |-> day.hyperliquid.last_timestamp,
        source_date |-> day.hyperliquid.source_date,
        flow_adjustment |-> 0,
        events_in_gap |-> 0],
     diff_normalized |-> day.diff] @@ day

(* an else branch that does not carry the raw value over *)
else_day_no_value(day) ==
    [hyperliquid_normalized |->
       [value |-> None,
        last_timestamp |-> day.hyperliquid.last_timestamp,
        source_date |-> day.hyperliquid.source_date,
        flow_adjustment |-> 0,
        events_in_gap |-> 0],
     diff_normalized |-> day.diff] @@ day

else_day(day) ==
    [hyperliquid_normalized |->
       [value |-> day.hyperliquid.value,
        last_timestamp |-> day.hyperliquid.last_timestamp,
        source_date |-> day.hyperliquid.source_date,
        flow_adjustment |-> 0,
        events_in_gap |-> 0],
     diff_normalized |-> day.diff] @@ day

(* a window closed on the low end *)
gap_flows_closed(flows, gap_start, gap_end) ==
    SelectSeq(flows, LAMBDA f : gap_start <= f.ts /\ f.ts <= gap_end)

(* flows with gap_start < ts <= gap_end *)
gap_flows_of(flows, gap_start, gap_end) ==
    SelectSeq(flows, LAMBDA f : gap_start < f.ts /\ f.ts <= gap_end)

RECURSIVE sum_amounts(_)
sum_amounts(flows) ==
    IF flows = <<>> THEN 0 ELSE Head(flows).amt + sum_amounts(Tail(flows))

(* a diff recomputed with the value as it is stored, rounded *)
normalized_diff_of_stored(art_val, normalized_val) ==
    IF art_val # None
    THEN LET abs_diff == Abs(art_val[1] - round6(normalized_val))
             denom == Max2(Abs(art_val[1]), Abs(round6(normalized_val)))
         IN  [abs |-> Some(round6(abs_diff)),
              pct |-> Some(round4_pct(abs_diff, denom)),
              match |-> Some(pct_below_threshold(abs_diff, denom))]
    ELSE [abs |-> None, pct |-> None, match |-> None]

(* the diff recomputed with the normalized value *)
normalized_diff(art_val, normalized_val) ==
    IF art_val # None
    THEN LET abs_diff == Abs(art_val[1] - normalized_val)
             denom == Max2(Abs(art_val[1]), Abs(normalized_val))
         IN  [abs |-> Some(round6(abs_diff)),
              pct |-> Some(round4_pct(abs_diff, denom)),
              match |-> Some(pct_below_threshold(abs_diff, denom))]
    ELSE [abs |-> None, pct |-> None, match |-> None]

(* a step 3 that starts from the value an earlier run normalized *)
normalize_day_again(day, flows) ==
    LET hl_ts == day.hyperliquid.last_timestamp
        art_ts == day.artemis.last_timestamp
        hl_val == IF "hyperliquid_normalized" \in DOMAIN day
                  THEN day.hyperliquid_normalized.value
                  ELSE day.hyperliquid.value
    IN  IF hl_ts # None /\ art_ts # None /\ hl_val # None
        THEN LET gap_flows == gap_flows_of(flows, hl_ts[1], art_ts[1])
                 net_flow == sum_amounts(gap_flows)
                 normalized_val == hl_val[1] + net_flow
             IN  [hyperliquid_normalized |->
                    [value |-> Some(round6(normalized_val)),
                     last_timestamp |-> hl_ts,
                     source_date |-> day.hyperliquid.source_date,
                     flow_adjustment |-> round6(net_flow),
                     events_in_gap |-> Len(gap_flows)],
                  diff_normalized |-> normalized_diff(day.artemis.value, normalized_val)]
                 @@ day
        ELSE else_day(day)

(* step 3 for one day *)
normalize_day(day, flows) ==
    LET hl_ts == day.hyperliquid.last_timestamp
        art_ts == day.artemis.last_timestamp
        hl_val == day.hyperliquid.value
    IN  IF hl_ts # None /\ art_ts # None /\ hl_val # None
        THEN LET gap_flows == gap_flows_of(flows, hl_ts[1], art_ts[1])
                 net_flow == sum_amounts(gap_flows)
                 normalized_val == hl_val[1] + net_flow
             IN  [hyperliquid_normalized |->
                    [value |-> Some(round6(normalized_val)),
                     last_timestamp |-> hl_ts,
                     source_date |-> day.hyperliquid.source_date,
                     flow_adjustment |-> round6(net_flow),
                     events_in_gap |-> Len(gap_flows)],
                  diff_normalized |-> normalized_diff(day.artemis.value, normalized_val)]
                 @@ day
        ELSE else_day(day)

(* `if art_ts:` keeps a timestamp that is neither None nor 0 *)
truthy(ts) == ts # None /\ ts[1] # 0

all_ts_of(series) ==
    {series[j].artemis.last_timestamp[1] :
        j \in {k \in DOMAIN series : truthy(series[k].artemis.last_timestamp)}}
    \cup {series[j].hyperliquid.last_timestamp[1] :
        j \in {k \in DOMAIN series : truthy(series[k].hyperliquid.last_timestamp)}}

SetMin(S) == CHOOSE x \in S : \A y \in S : x <= y
SetMax(S) == CHOOSE x \in S : \A y \in S : y <= x

(* The body of the loop over the addresses, for one address block: the path
   taken, the block as it leaves the iteration, the flows extracted.        *)
normalize_address(addr_block, address_events, fail_at) ==
    LET series == addr_block.series
        all_ts == all_ts_of(series)
    IN  IF all_ts = {}
        THEN [path |-> "no_timestamps", requests |-> 0, flows |-> <<>>,
              block |-> [addr_block EXCEPT !.series =
                           [j \in DOMAIN series |-> skip_day(series[j])]]]
        ELSE LET fetched == get_all_ledger_events(address_events, SetMin(all_ts),
                                                  SetMax(all_ts), fail_at)
             IN  IF fetched.outcome = "raise"
                 THEN [path |-> "api_error", requests |-> fetched.requests, flows |-> <<>>,
                       block |-> [addr_block EXCEPT !.series =
                                    [j \in DOMAIN series |-> api_error_day(series[j])]]]
                 ELSE IF fetched.outcome = "hang"
                 THEN [path |-> "hang", requests |-> fetched.requests, flows |-> <<>>,
                       block |-> addr_block]
                 ELSE LET extracted == extract_flows(fetched.events)
                      IN  IF extracted.raised
                          THEN [path |-> "raise", requests |-> fetched.requests,
                                flows |-> <<>>, block |-> addr_block]
                          ELSE [path |-> "ok", requests |-> fetched.requests,
                                flows |-> extracted.flows,
                                block |-> [addr_block EXCEPT !.series =
                                   [j \in DOMAIN series |->
                                      normalize_day(series[j], extracted.flows)]]]

(* Events the ledger source may hold: deposits just before, at and after
   the start of START_DATE, one below 1e-6, a withdrawal and a rewards
   claim without an amount.                                                *)
LedgerEvents ==
    {Deposit(Num(START_DATE * DayMs - 1), Num(5 * Micro)),
     Deposit(Num(START_DATE * DayMs + 1), Num(5 * Micro)),
     Deposit(Num(START_DATE * DayMs), Num(Micro \div 2 - 1)),
     Withdraw(Num(START_DATE * DayMs), Num(5 * Micro)),
     RewardsClaim(Num(START_DATE * DayMs), Absent)}

AddressSet == {Addresses[i] : i \in DOMAIN Addresses}

RECURSIVE total_events(_, _)
total_events(w, addrs) ==
    IF addrs = {} THEN 0
    ELSE LET a == CHOOSE x \in addrs : TRUE
         IN  Len(w[a]) + total_events(w, addrs \ {a})

LedgerWorlds ==
    {w \in [AddressSet -> SeqsUpTo(LedgerEvents, MaxEvents)] :
        total_events(w, AddressSet) <= MaxEvents}

(* step 1: json.load(INPUT_FILE); the ledger source is what it is *)
LoadComparison ==
    /\ pc = "x_done"
    /\ raw_file # None
    /\ data' = raw_file
    /\ \E w \in LedgerWorlds : ledger' = w
    /\ run' = 1
    /\ idx' = 1
    /\ log' = <<>>
    /\ pc' = "n_loop"
    /\ UNCHANGED <<current, artemis_data, hl_data, payload, result, raw_file,
                   norm_file, first>>
    /\ UNCHANGED flow_vars

(* step 2-3: one iteration of the loop over the addresses *)
NormalizeAddress ==
    /\ pc = "n_loop"
    /\ idx <= Len(data[1].addresses)
    /\ \E fail_at \in 0..(MaxEvents + 1) :
         LET block == data[1].addresses[idx]
             r == normalize_address(block, ledger[block.address], fail_at)
         IN  /\ run = 2 => r.path = first[1].log[idx].path
             /\ data' = Some([data[1] EXCEPT !.addresses[idx] = r.block])
             /\ log' = Append(log, [path |-> r.path, requests |-> r.requests,
                                    flows |-> r.flows])
             /\ pc' = IF r.path = "hang" THEN "hung"
                      ELSE IF r.path = "raise" THEN "crashed"
                      ELSE pc
             /\ idx' = IF r.path \in {"hang", "raise"} THEN idx ELSE idx + 1
    /\ UNCHANGED <<current, artemis_data, hl_data, payload, result, raw_file,
                   norm_file, ledger, run, first>>
    /\ UNCHANGED flow_vars

(* step 5: generated_at is set, open(OUTPUT_FILE, "w") *)
OpenNormalized ==
    /\ pc = "n_loop"
    /\ idx > Len(data[1].addresses)
    /\ norm_file' = Truncated
    /\ pc' = "n_dump"
    /\ UNCHANGED <<current, idx, artemis_data, hl_data, payload, result, raw_file,
                   data, ledger, log, run, first>>
    /\ UNCHANGED flow_vars

(* step 5: json.dump(data, f) and the file closed *)
WriteNormalized ==
    /\ pc = "n_dump"
    /\ norm_file' = Some([data[1] EXCEPT !.generated_at = run])
    /\ first' = IF run = 1 THEN Some([doc |-> norm_file'[1], log |-> log]) ELSE first
    /\ pc' = "n_done"
    /\ UNCHANGED <<current, idx, artemis_data, hl_data, payload, result, raw_file,
                   data, ledger, log, run>>
    /\ UNCHANGED flow_vars

(* normalize_data.py run again, on the document that already carries the
   normalized fields, against the same ledger: the second run meets the
   ledger fetch of the first (NormalizeAddress, run = 2)                   *)
LoadNormalized ==
    /\ pc = "n_done"
    /\ run = 1
    /\ data' = norm_file
    /\ run' = 2
    /\ idx' = 1
    /\ log' = <<>>
    /\ pc' = "n_loop"
    /\ UNCHANGED <<current, artemis_data, hl_data, payload, result, raw_file,
                   norm_file, ledger, first>>
    /\ UNCHANGED flow_vars

----------------------------------------------------------------------------
(* The pipeline *)

Init ==
    /\ pc = "x_artemis"
    /\ current = START_DATE
    /\ idx = 1
    /\ artemis_data = EmptyDict
    /\ hl_data = EmptyDict
    /\ payload = None
    /\ result = None
    /\ raw_file = None
    /\ norm_file = None
    /\ data = None
    /\ ledger = [a \in AddressSet |-> <<>>]
    /\ log = <<>>
    /\ run = 0
    /\ first = None
    /\ events_in = <<>>
    /\ flows_out = None
    /\ window_in = None
    /\ window_out = None
    /\ ledger_in = None
    /\ events_out = None
    /\ series_in = None
    /\ stats_out = None
    /\ pair_in = None
    /\ pair_out = None
    /\ diff_in = None
    /\ diff_out = None

Next ==
    \/ FetchArtemisDay
    \/ FetchHL
    \/ BuildComparison
    \/ OpenComparison
    \/ WriteComparison
    \/ LoadComparison
    \/ NormalizeAddress
    \/ OpenNormalized
    \/ WriteNormalized
    \/ LoadNormalized

Spec == Init /\ [][Next]_vars

----------------------------------------------------------------------------
(* extract_flows alone, on every event list up to MaxFlowEvents *)

FlowTimes == {Absent, Bad, Num(1), Num(2)}

(* the payloads: every recognised type with its amount present, missing and
   non-numeric, the directions of a send and of an account-class transfer,
   an unrecognised type and an event without a type                        *)
EventsAt(t) ==
    {Deposit(t, u) : u \in {Num(5), Absent, Bad}}
    \cup {Withdraw(t, u) : u \in {Num(5), Absent, Bad}}
    \cup {RewardsClaim(t, a) : a \in {Num(7), Absent, Bad}}
    \cup {Send(t, Num(3), Absent, src, dst) : src \in {"", "spot"}, dst \in {"", "spot"}}
    \cup {Send(t, Absent, Num(7), "", "spot"),
          Send(t, Absent, Absent, "", "spot"),
          Send(t, Bad, Num(7), "spot", "")}
    \cup {AccountClassTransfer(t, Num(5), TRUE),
          AccountClassTransfer(t, Num(5), FALSE),
          AccountClassTransfer(t, Absent, TRUE),
          AccountClassTransfer(t, Bad, FALSE)}
    \cup {Event(t, "liquidation", Num(5), Absent, Absent, "", "", FALSE),
          Event(t, "", Absent, Absent, Absent, "", "", FALSE)}

FlowEvents == UNION {EventsAt(t) : t \in FlowTimes}

InitFlows ==
    /\ pc = "f_start"
    /\ current = START_DATE
    /\ idx = 1
    /\ artemis_data = EmptyDict
    /\ hl_data = EmptyDict
    /\ payload = None
    /\ result = None
    /\ raw_file = None
    /\ norm_file = None
    /\ data = None
    /\ ledger = [a \in AddressSet |-> <<>>]
    /\ log = <<>>
    /\ run = 0
    /\ first = None
    /\ events_in \in SeqsUpTo(FlowEvents, MaxFlowEvents)
    /\ flows_out = None
    /\ window_in = None
    /\ window_out = None
    /\ ledger_in = None
    /\ events_out = None
    /\ series_in = None
    /\ stats_out = None
    /\ pair_in = None
    /\ pair_out = None
    /\ diff_in = None
    /\ diff_out = None

ExtractFlows ==
    /\ pc = "f_start"
    /\ flows_out' = Some(extract_flows(events_in))
    /\ pc' = "f_done"
    /\ UNCHANGED <<current, idx, artemis_data, hl_data, payload, result, raw_file,
                   norm_file, data, ledger, log, run, first, events_in>>
    /\ UNCHANGED <<window_in, window_out, ledger_in, events_out, series_in, stats_out,
                   pair_in, pair_out, diff_in, diff_out>>

NextFlows == ExtractFlows

SpecFlows == InitFlows /\ [][NextFlows]_vars

----------------------------------------------------------------------------
(* build_comparison alone, on windows up to MaxWindow days and observations
   inside and outside of them                                               *)

(* what the pipeline holds at its start, and keeps in the runs of a function
   taken alone                                                              *)
pipeline_idle ==
    /\ current = START_DATE
    /\ idx = 1
    /\ artemis_data = EmptyDict
    /\ hl_data = EmptyDict
    /\ payload = None
    /\ result = None
    /\ raw_file = None
    /\ norm_file = None
    /\ data = None
    /\ ledger = [a \in AddressSet |-> <<>>]
    /\ log = <<>>
    /\ run = 0
    /\ first = None

pipeline_vars == <<current, idx, artemis_data, hl_data, payload, result, raw_file,
                   norm_file, data, ledger, log, run, first>>

(* an observation of an address on a day: where it goes in the dict *)
Observations ==
    {[address |-> a, date |-> d,
      rec |-> [timestamp_ms |-> d * DayMs + 1, account_value |-> ValA]] :
        a \in AddressSet, d \in 0..(MaxWindow + 2)}

RECURSIVE dict_of(_)
dict_of(obs) ==
    IF obs = <<>> THEN EmptyDict
    ELSE dict_append(dict_of(SubSeq(obs, 1, Len(obs) - 1)),
                     obs[Len(obs)].address, obs[Len(obs)].date, obs[Len(obs)].rec)

InitWindow ==
    /\ pc = "w_start"
    /\ pipeline_idle
    /\ events_in = <<>>
    /\ flows_out = None
    /\ \E start \in 1..2, days \in 1..MaxWindow,
          a \in SeqsUpTo(Observations, 1), h \in SeqsUpTo(Observations, 2) :
          window_in = Some([start |-> start, end |-> start + days - 1,
                            artemis |-> dict_of(a), hyperliquid |-> dict_of(h)])
    /\ window_out = None
    /\ ledger_in = None
    /\ events_out = None
    /\ series_in = None
    /\ stats_out = None
    /\ pair_in = None
    /\ pair_out = None
    /\ diff_in = None
    /\ diff_out = None

BuildWindow ==
    /\ pc = "w_start"
    /\ window_out' = Some(address_results(Addresses,
                             window_dates(window_in[1].start, window_in[1].end),
                             window_in[1].artemis, window_in[1].hyperliquid))
    /\ pc' = "w_done"
    /\ UNCHANGED pipeline_vars
    /\ UNCHANGED <<events_in, flows_out, window_in, ledger_in, events_out,
                   series_in, stats_out, pair_in, pair_out, diff_in, diff_out>>

NextWindow == BuildWindow

SpecWindow == InitWindow /\ [][NextWindow]_vars

----------------------------------------------------------------------------
(* get_all_ledger_events alone, on every ledger of up to MaxLedger events,
   against a source that answers a request with the earliest PageLimit
   events of the range                                                      *)

LedgerTimes == 1..3

(* events that share a timestamp and differ in content, on every time *)
PagedEvents ==
    {Deposit(Num(t), Num(5 * Micro)) : t \in LedgerTimes}
    \cup {Deposit(Num(t), Num(7 * Micro)) : t \in LedgerTimes}
    \cup {Withdraw(Num(t), Num(5 * Micro)) : t \in LedgerTimes}

InitLedger ==
    /\ pc = "l_start"
    /\ pipeline_idle
    /\ events_in = <<>>
    /\ flows_out = None
    /\ window_in = None
    /\ window_out = None
    /\ \E evs \in SeqsUpTo(PagedEvents, MaxLedger), start_ms \in {0, 2}, end_ms \in {2, 3} :
          ledger_in = Some([events |-> evs, start_ms |-> start_ms, end_ms |-> end_ms])
    /\ events_out = None
    /\ series_in = None
    /\ stats_out = None
    /\ pair_in = None
    /\ pair_out = None
    /\ diff_in = None
    /\ diff_out = None

(* the call; it does not return when the loop has no exit *)
FetchLedger ==
    /\ pc = "l_start"
    /\ LET fetched == get_all_ledger_events(ledger_in[1].events, ledger_in[1].start_ms,
                                            ledger_in[1].end_ms, 0)
       IN  /\ events_out' = Some(fetched)
           /\ pc' = IF fetched.outcome = "hang" THEN "l_hung" ELSE "l_done"
    /\ UNCHANGED pipeline_vars
    /\ UNCHANGED <<events_in, flows_out, window_in, window_out, ledger_in,
                   series_in, stats_out, pair_in, pair_out, diff_in, diff_out>>

NextLedger == FetchLedger

SpecLedger == InitLedger /\ [][NextLedger]_vars

----------------------------------------------------------------------------
(* analysis.py and analysis_normalized.py: analyse.  A pct counts units of
   1e-4 percent, as a stored pct does.                                      *)

BUCKETS ==
    <<[label |-> "OK (< 0.5%)", lo |-> 0, hi |-> Some(5000)],
      [label |-> "0.5% - 1%", lo |-> 5000, hi |-> Some(10000)],
      [label |-> "1% - 5%", lo |-> 10000, hi |-> Some(50000)],
      [label |-> "5% - 10%", lo |-> 50000, hi |-> Some(100000)],
      [label |-> "10% - 25%", lo |-> 100000, hi |-> Some(250000)],
      [label |-> "25% - 50%", lo |-> 250000, hi |-> Some(500000)],
      [label |-> "50% - 100%", lo |-> 500000, hi |-> Some(1000000)],
      [label |-> "100% - 250%", lo |-> 1000000, hi |-> Some(2500000)],
      [label |-> "250% - 500%", lo |-> 2500000, hi |-> Some(5000000)],
      [label |-> "> 500%", lo |-> 5000000, hi |-> None]>>

(* a test that takes the upper bound of a bucket in *)
in_bucket_closed(pct, lo, hi) == lo <= pct /\ (hi = None \/ pct <= hi[1])

(* lo <= pct < hi, hi = float("inf") for the last bucket *)
in_bucket(pct, lo, hi) == lo <= pct /\ (hi = None \/ pct < hi[1])

(* for label, lo, hi in BUCKETS: if lo <= pct < hi: count; break.  The
   bucket counted, 0 when the loop ends without one.                        *)
RECURSIVE first_bucket(_, _)
first_bucket(pct, b) ==
    IF b > Len(BUCKETS) THEN 0
    ELSE IF in_bucket(pct, BUCKETS[b].lo, BUCKETS[b].hi) THEN b
    ELSE first_bucket(pct, b + 1)

no_stats ==
    [all_points |-> <<>>,
     bucket_counts |-> [b \in DOMAIN BUCKETS |-> 0],
     missing_count |-> 0]

(* day["diff"] / day.get("diff_normalized", day["diff"]) *)
diff_of(day, normalized) ==
    IF normalized /\ "diff_normalized" \in DOMAIN day THEN day.diff_normalized
    ELSE day.diff

(* the body of the loop over the days *)
analyse_day(stats, addr, day, normalized) ==
    LET pct == diff_of(day, normalized).pct
    IN  IF pct = None
        THEN [stats EXCEPT !.missing_count = @ + 1]
        ELSE LET b == first_bucket(pct[1], 1)
                 point == [address |-> addr, date |-> day.date, pct |-> pct[1]]
             IN  [stats EXCEPT
                    !.all_points = Append(@, point),
                    !.bucket_counts = IF b = 0 THEN @ ELSE [@ EXCEPT ![b] = @ + 1]]

RECURSIVE analyse_series(_, _, _, _)
analyse_series(stats, addr, series, normalized) ==
    IF series = <<>> THEN stats
    ELSE analyse_series(analyse_day(stats, addr, Head(series), normalized),
                        addr, Tail(series), normalized)

RECURSIVE analyse_blocks(_, _, _)
analyse_blocks(stats, blocks, normalized) ==
    IF blocks = <<>> THEN stats
    ELSE analyse_blocks(
           analyse_series(stats, Head(blocks).address, Head(blocks).series, normalized),
           Tail(blocks), normalized)

(* analysis.py *)
analyse(doc) == analyse_blocks(no_stats, doc.addresses, FALSE)

(* analysis_normalized.py *)
analyse_normalized(doc) == analyse_blocks(no_stats, doc.addresses, TRUE)

(* the pcts a document may hold: the lower bound of every bucket, values
   just below a bound, and null                                             *)
PctValues ==
    {None} \cup {Some(BUCKETS[b].lo) : b \in DOMAIN BUCKETS}
    \cup {Some(BUCKETS[b].lo - 1) : b \in {2, 3, Len(BUCKETS)}}

DayEntries ==
    {[date |-> START_DATE, diff |-> [pct |-> p]] : p \in PctValues}
    \cup {[date |-> START_DATE, diff |-> [pct |-> p], diff_normalized |-> [pct |-> q]] :
            p \in {None, Some(BUCKETS[2].lo - 1)},
            q \in {None, Some(BUCKETS[2].lo), Some(BUCKETS[3].lo - 1)}}

InitAnalyse ==
    /\ pc = "a_start"
    /\ pipeline_idle
    /\ events_in = <<>>
    /\ flows_out = None
    /\ window_in = None
    /\ window_out = None
    /\ ledger_in = None
    /\ events_out = None
    /\ \E s1 \in SeqsUpTo(DayEntries, MaxSeries), s2 \in SeqsUpTo(DayEntries, 1) :
          series_in = Some([addresses |-> <<[address |-> "a1", series |-> s1],
                                            [address |-> "a2", series |-> s2]>>])
    /\ stats_out = None
    /\ pair_in = None
    /\ pair_out = None
    /\ diff_in = None
    /\ diff_out = None

Analyse ==
    /\ pc = "a_start"
    /\ stats_out' = Some([normalized |-> FALSE, stats |-> analyse(series_in[1])])
    /\ pc' = "a_done"
    /\ UNCHANGED pipeline_vars
    /\ UNCHANGED <<events_in, flows_out, window_in, window_out, ledger_in, events_out,
                   series_in, pair_in, pair_out, diff_in, diff_out>>

AnalyseNormalized ==
    /\ pc = "a_start"
    /\ stats_out' = Some([normalized |-> TRUE, stats |-> analyse_normalized(series_in[1])])
    /\ pc' = "a_done"
    /\ UNCHANGED pipeline_vars
    /\ UNCHANGED <<events_in, flows_out, window_in, window_out, ledger_in, events_out,
                   series_in, pair_in, pair_out, diff_in, diff_out>>

NextAnalyse == Analyse \/ AnalyseNormalized

SpecAnalyse == InitAnalyse /\ [][NextAnalyse]_vars

----------------------------------------------------------------------------
(* Two runs side by side: build_comparison and the normalization pass, on
   two inputs that give one address the same observations, the same ledger
   events and the same ledger fetch                                         *)

(* the loop over the addresses, to its end: the blocks as they are dumped,
   or no document when the pass dies or never ends                          *)
RECURSIVE normalize_all(_, _, _, _)
normalize_all(done, todo, ledger_world, fails) ==
    IF todo = <<>> THEN [outcome |-> "written", addresses |-> done]
    ELSE LET r == normalize_address(Head(todo), ledger_world[Head(todo).address],
                                    fails[Head(todo).address])
         IN  IF r.path = "hang" THEN [outcome |-> "hung", addresses |-> <<>>]
             ELSE IF r.path = "raise" THEN [outcome |-> "crashed", addresses |-> <<>>]
             ELSE normalize_all(Append(done, r.block), Tail(todo), ledger_world, fails)

(* what there is about one address: a Source A observation on START_DATE or
   none, a Source B observation the day before or none, its ledger events,
   the page request of its fetch that fails (0: none)                       *)
EntityData ==
    [art : BOOLEAN, hl : BOOLEAN,
     events : {<<>>,
               <<Deposit(Num(START_DATE * DayMs + 1), Num(5 * Micro))>>,
               <<Deposit(Num(START_DATE * DayMs), Num(5 * Micro)),
                 Withdraw(Num(START_DATE * DayMs), Num(5 * Micro))>>},
     fail_at : {0, 1}]

observations_of(order, d, source) ==
    LET one(a) ==
          IF source = "artemis" /\ d[a].art
          THEN <<[address |-> a, date |-> START_DATE,
                  rec |-> [timestamp_ms |-> START_DATE * DayMs + 1, account_value |-> ValA]]>>
          ELSE IF source = "hyperliquid" /\ d[a].hl
          THEN <<[address |-> a, date |-> hl_start,
                  rec |-> [timestamp_ms |-> hl_start * DayMs + 1, account_value |-> ValB]]>>
          ELSE <<>>
    IN  one(order[1]) \o one(order[2])

RunInput(order, d) ==
    [order |-> order,
     artemis |-> dict_of(observations_of(order, d, "artemis")),
     hyperliquid |-> dict_of(observations_of(order, d, "hyperliquid")),
     ledger |-> [a \in AddressSet |-> d[a].events],
     fails |-> [a \in AddressSet |-> d[a].fail_at]]

(* the series of an address in a list of blocks *)
series_of(blocks, addr) ==
    blocks[CHOOSE i \in DOMAIN blocks : blocks[i].address = addr].series

(* a run on an input: the raw series build_comparison gives the address, and
   the normalized series the pass dumps for it, if it dumps                 *)
run_for(input, addr) ==
    LET doc == build_comparison(input.order, input.artemis, input.hyperliquid)
        pass == normalize_all(<<>>, doc.addresses, input.ledger, input.fails)
    IN  [raw |-> series_of(doc.addresses, addr),
         outcome |-> pass.outcome,
         normalized |-> IF pass.outcome = "written"
                        THEN Some(series_of(pass.addresses, addr)) ELSE None]

Orders == {<<"a1", "a2">>, <<"a2", "a1">>}

InitPair ==
    /\ pc = "p_start"
    /\ pipeline_idle
    /\ events_in = <<>>
    /\ flows_out = None
    /\ window_in = None
    /\ window_out = None
    /\ ledger_in = None
    /\ events_out = None
    /\ series_in = None
    /\ stats_out = None
    /\ \E own \in EntityData, other1 \in EntityData, other2 \in EntityData,
          order1 \in Orders, order2 \in Orders :
          pair_in = Some(<<RunInput(order1, [a \in AddressSet |->
                                               IF a = "a1" THEN own ELSE other1]),
                          RunInput(order2, [a \in AddressSet |->
                                               IF a = "a1" THEN own ELSE other2])>>)
    /\ pair_out = None
    /\ diff_in = None
    /\ diff_out = None

RunPair ==
    /\ pc = "p_start"
    /\ pair_out' = Some(<<run_for(pair_in[1][1], "a1"), run_for(pair_in[1][2], "a1")>>)
    /\ pc' = "p_done"
    /\ UNCHANGED pipeline_vars
    /\ UNCHANGED <<events_in, flows_out, window_in, window_out, ledger_in, events_out,
                   series_in, stats_out, pair_in, diff_in, diff_out>>

NextPair == RunPair

SpecPair == InitPair /\ [][NextPair]_vars

----------------------------------------------------------------------------
(* The diff formula alone: the raw diff of build_comparison and the diff
   recomputed by the normalization pass, on value pairs of either sign, and
   the bucket the analysis counts each of them in                           *)

DiffValues == {None} \cup {Some(v) : v \in (-MaxValue)..MaxValue}

(* the diff_normalized of a day whose gap holds the net flow `net` *)
diff_normalized_of(art_value, hl_value, net) ==
    IF hl_value = None THEN raw_diff(art_value, hl_value)
    ELSE normalized_diff(art_value, hl_value[1] + net)

InitDiff ==
    /\ pc = "d_start"
    /\ pipeline_idle
    /\ events_in = <<>>
    /\ flows_out = None
    /\ window_in = None
    /\ window_out = None
    /\ ledger_in = None
    /\ events_out = None
    /\ series_in = None
    /\ stats_out = None
    /\ pair_in = None
    /\ pair_out = None
    /\ \E a \in DiffValues, b \in DiffValues, net \in {-MaxValue, 0, MaxValue} :
          diff_in = Some([artemis |-> a, hyperliquid |-> b, net_flow |-> net])
    /\ diff_out = None

ComputeDiff ==
    /\ pc = "d_start"
    /\ LET in == diff_in[1]
           day == [date |-> START_DATE,
                   diff |-> raw_diff(in.artemis, in.hyperliquid),
                   diff_normalized |->
                      diff_normalized_of(in.artemis, in.hyperliquid, in.net_flow)]
           doc == [addresses |-> <<[address |-> "a1", series |-> <<day>>]>>]
       IN  diff_out' = Some([day |-> day,
                             stats |-> analyse(doc),
                             stats_normalized |-> analyse_normalized(doc)])
    /\ pc' = "d_done"
    /\ UNCHANGED pipeline_vars
    /\ UNCHANGED <<events_in, flows_out, window_in, window_out, ledger_in, events_out,
                   series_in, stats_out, pair_in, pair_out, diff_in>>

NextDiff == ComputeDiff

SpecDiff == InitDiff /\ [][NextDiff]_vars

----------------------------------------------------------------------------
(* PROPERTIES *)

(* the persisted documents and their pairs *)
Documents == {d \in {raw_file, norm_file} : d # None /\ d # Truncated}

Pairs(doc) ==
    {doc[1].addresses[i].series[j] :
        i \in DOMAIN doc[1].addresses, j \in DOMAIN dates}

(* 0.5 percent, in the unit of a stored pct (1e-4 percent) *)
StoredThreshold == 5000

MatchIffStoredPct(diff) ==
    diff.pct # None => (diff.match[1] <=> diff.pct[1] < StoredThreshold)

(* the addresses the running normalization pass has gone through, and their
   pairs as the pass holds them                                             *)
Normalized(i) ==
    /\ data # None
    /\ i \in DOMAIN log
    /\ log[i].path \in {"no_timestamps", "api_error", "ok"}

Pair(i, j) == data[1].addresses[i].series[j]

HasGap(day) ==
    /\ day.hyperliquid.last_timestamp # None
    /\ day.artemis.last_timestamp # None
    /\ day.hyperliquid.value # None

HasBoth(day) == HasGap(day) /\ day.artemis.value # None

(* the flows t of a list with lo < t <= hi, by position, and their sum *)
InGap(flows, lo, hi) == {k \in DOMAIN flows : lo < flows[k].ts /\ flows[k].ts <= hi}

RECURSIVE SumAt(_, _)
SumAt(flows, K) ==
    IF K = {} THEN 0
    ELSE LET k == CHOOSE x \in K : TRUE
         IN  flows[k].amt + SumAt(flows, K \ {k})

GapOf(i, j) ==
    InGap(log[i].flows, Pair(i, j).hyperliquid.last_timestamp[1],
          Pair(i, j).artemis.last_timestamp[1])

NetGapFlow(i, j) == SumAt(log[i].flows, GapOf(i, j))

IsNoOp(day) ==
    /\ day.hyperliquid_normalized.value = day.hyperliquid.value
    /\ day.hyperliquid_normalized.flow_adjustment = 0
    /\ day.hyperliquid_normalized.events_in_gap = 0
    /\ day.diff_normalized = day.diff

(* C1: in every persisted document, for every pair, a non-null diff has
   match true exactly when its stored pct is below 0.5, and so has a
   non-null diff_normalized.                                                *)
C1_MatchIffStoredPct ==
    \A doc \in Documents : \A day \in Pairs(doc) :
        /\ MatchIffStoredPct(day.diff)
        /\ "diff_normalized" \in DOMAIN day => MatchIffStoredPct(day.diff_normalized)

(* the latest observation of a bucket, or the absent side of an empty one *)
IsLatestOf(records, side) ==
    IF records = <<>>
    THEN side.value = None /\ side.last_timestamp = None
    ELSE /\ side.value # None /\ side.last_timestamp # None
         /\ \E k \in DOMAIN records :
              /\ records[k].timestamp_ms = side.last_timestamp[1]
              /\ records[k].account_value = side.value[1]
         /\ \A k \in DOMAIN records : records[k].timestamp_ms <= side.last_timestamp[1]

(* the points of a history that fall on a day *)
PointsOn(history, day) ==
    {history[k] : k \in {n \in DOMAIN history : date_of(history[n].t) = day}}

(* C2: the comparison built for an address and a date D of the window
   carries the latest Source A observation of bucket D, the latest Source B
   observation of bucket D-1 and source_date D-1, an empty bucket giving an
   absent side; and a value history, once taken in, has left its points of
   the day before START_DATE in that day's bucket.                          *)
C2_Alignment ==
    /\ pc = "x_write" =>
         \A i \in DOMAIN Addresses : \A j \in DOMAIN dates :
            LET e == result[1].addresses[i].series[j]
                addr == result[1].addresses[i].address
            IN  /\ e.date = dates[j]
                /\ e.hyperliquid.source_date = dates[j] - 1
                /\ IsLatestOf(bucket(artemis_data, addr, dates[j]), e.artemis)
                /\ IsLatestOf(bucket(hl_data, addr, dates[j] - 1), e.hyperliquid)
    /\ (pc = "x_hl" /\ payload # None /\ payload[1].kind = "ok" /\ idx > 1) =>
         \A p \in PointsOn(payload[1].history, START_DATE - 1) :
            \E k \in DOMAIN bucket(hl_data, lower(Addresses[idx - 1]), START_DATE - 1) :
               bucket(hl_data, lower(Addresses[idx - 1]), START_DATE - 1)[k]
                 = [timestamp_ms |-> p.t, account_value |-> p.v.val]

(* a comparison built over buckets of two observations with different
   timestamps on both sides, the Source B ones on the day before START_DATE *)
C2_Witness ==
    /\ pc = "x_write"
    /\ \E i \in DOMAIN Addresses :
         LET a == bucket(artemis_data, lower(Addresses[i]), START_DATE)
             b == bucket(hl_data, lower(Addresses[i]), START_DATE - 1)
         IN  /\ Len(a) = 2 /\ a[1].timestamp_ms < a[2].timestamp_ms
             /\ Len(b) = 2 /\ b[1].timestamp_ms > b[2].timestamp_ms
             /\ bucket(hl_data, lower(Addresses[3 - i]), START_DATE) # <<>>
             /\ result[1].addresses[3 - i].series[1].hyperliquid.value = None

(* C3: for a pair with both timestamps and the Source B value, normalized
   against the flows of its address, events_in_gap is the number of flows t
   with b_timestamp < t <= a_timestamp and flow_adjustment is the sum of
   their amounts rounded to 6 decimals.                                     *)
C3_GapWindowRounded ==
    \A i \in DOMAIN log : (Normalized(i) /\ log[i].path = "ok") =>
        \A j \in DOMAIN dates : HasGap(Pair(i, j)) =>
            /\ Pair(i, j).hyperliquid_normalized.events_in_gap = Cardinality(GapOf(i, j))
            /\ Pair(i, j).hyperliquid_normalized.flow_adjustment = round6(NetGapFlow(i, j))

(* C3 as stated: flow_adjustment is the sum itself *)
C3_GapWindowExact ==
    \A i \in DOMAIN log : (Normalized(i) /\ log[i].path = "ok") =>
        \A j \in DOMAIN dates : HasGap(Pair(i, j)) =>
            /\ Pair(i, j).hyperliquid_normalized.events_in_gap = Cardinality(GapOf(i, j))
            /\ Pair(i, j).hyperliquid_normalized.flow_adjustment = NetGapFlow(i, j)

(* a pair normalized against a flow exactly at b_timestamp and a flow
   exactly at a_timestamp: the second alone is counted                     *)
C3_Witness ==
    \E i \in DOMAIN log : \E j \in DOMAIN dates :
        /\ Normalized(i) /\ log[i].path = "ok"
        /\ HasGap(Pair(i, j))
        /\ \E k \in DOMAIN log[i].flows :
             log[i].flows[k].ts = Pair(i, j).hyperliquid.last_timestamp[1]
        /\ \E k \in DOMAIN log[i].flows :
             log[i].flows[k].ts = Pair(i, j).artemis.last_timestamp[1]
        /\ Pair(i, j).hyperliquid_normalized.events_in_gap = 1
        /\ Pair(i, j).hyperliquid_normalized.flow_adjustment # 0

(* the Diff of a_value against an exact value v, as the pass stores it *)
StoredDiff(a, v) ==
    [abs |-> Some(round6(Abs(a - v))),
     pct |-> Some(round4_pct(Abs(a - v), Max2(Abs(a), Abs(v)))),
     match |-> Some(pct_below_threshold(Abs(a - v), Max2(Abs(a), Abs(v))))]

(* the Diff of a_value against v by the formula of the raw diff *)
ExactDiff(a, v) ==
    [abs |-> Some(Abs(a - v)),
     pct |-> Some(round4_pct(Abs(a - v), Max2(Abs(a), Abs(v)))),
     match |-> Some(pct_below_threshold(Abs(a - v), Max2(Abs(a), Abs(v))))]

(* C4: for a pair with both values and both timestamps, normalized against
   the flows of its address, the stored normalized value is b_value + net
   gap flow rounded to 6 decimals, and diff_normalized is the Diff of
   a_value against the unrounded b_value + net gap flow, its abs rounded to
   6 decimals, its pct to 4, its match decided on the unrounded pct; a net
   gap flow of a_value - b_value gives pct 0 and match true.                *)
C4_NormalizedValueRounded ==
    \A i \in DOMAIN log : (Normalized(i) /\ log[i].path = "ok") =>
        \A j \in DOMAIN dates : HasBoth(Pair(i, j)) =>
            LET a == Pair(i, j).artemis.value[1]
                b == Pair(i, j).hyperliquid.value[1]
                net == NetGapFlow(i, j)
            IN  /\ Pair(i, j).hyperliquid_normalized.value = Some(round6(b + net))
                /\ Pair(i, j).diff_normalized = StoredDiff(a, b + net)
                /\ net = a - b =>
                     /\ Pair(i, j).diff_normalized.pct = Some(0)
                     /\ Pair(i, j).diff_normalized.match = Some(TRUE)

(* C4 as stated: the stored value is b_value + net gap flow itself and
   diff_normalized follows the formula of the raw diff                     *)
C4_NormalizedValueExact ==
    \A i \in DOMAIN log : (Normalized(i) /\ log[i].path = "ok") =>
        \A j \in DOMAIN dates : HasBoth(Pair(i, j)) =>
            LET a == Pair(i, j).artemis.value[1]
                b == Pair(i, j).hyperliquid.value[1]
                net == NetGapFlow(i, j)
            IN  /\ Pair(i, j).hyperliquid_normalized.value = Some(b + net)
                /\ Pair(i, j).diff_normalized = ExactDiff(a, b + net)

(* a pair of different values whose gap holds exactly a_value - b_value:
   normalized pct 0, match true                                             *)
C4_Witness ==
    \E i \in DOMAIN log : \E j \in DOMAIN dates :
        /\ Normalized(i) /\ log[i].path = "ok"
        /\ HasBoth(Pair(i, j))
        /\ Pair(i, j).diff.pct # Some(0)
        /\ NetGapFlow(i, j) # 0
        /\ NetGapFlow(i, j) = Pair(i, j).artemis.value[1] - Pair(i, j).hyperliquid.value[1]
        /\ Pair(i, j).diff_normalized.pct = Some(0)
        /\ Pair(i, j).diff_normalized.match = Some(TRUE)

Missing(day) ==
    \/ day.artemis.value = None
    \/ day.hyperliquid.value = None
    \/ day.artemis.last_timestamp = None
    \/ day.hyperliquid.last_timestamp = None

(* C5: a pair of a normalized address with a value or a timestamp missing
   keeps its raw Source B value (absent stays absent), has flow_adjustment
   0 and events_in_gap 0, and its diff_normalized is its diff.              *)
C5_MissingIsNoOp ==
    \A i \in DOMAIN log : Normalized(i) =>
        \A j \in DOMAIN dates : Missing(Pair(i, j)) => IsNoOp(Pair(i, j))

(* a pair with Source B present and Source A missing, normalized against a
   flow list that holds a flow of non-zero amount                           *)
C5_Witness ==
    \E i \in DOMAIN log : \E j \in DOMAIN dates :
        /\ Normalized(i) /\ log[i].path = "ok"
        /\ Pair(i, j).artemis.value = None
        /\ Pair(i, j).hyperliquid.value # None
        /\ \E k \in DOMAIN log[i].flows :
             log[i].flows[k].amt # 0
        /\ IsNoOp(Pair(i, j))

(* an event with a timestamp that is a number *)
HasTimestamp(ev) == ev.time.tag = "num"

(* the amount field the sign table reads *)
AmountField(ev) ==
    IF ev.type = "rewardsClaim" THEN ev.amount
    ELSE IF ev.type = "send"
    THEN (IF ev.usdcValue.tag # "absent" THEN ev.usdcValue ELSE ev.amount)
    ELSE ev.usdc

Recognised == {"deposit", "withdraw", "rewardsClaim", "send", "accountClassTransfer"}

(* the flows of one event by the sign table: none or one <<ts, amount>> *)
SignTable(ev) ==
    LET t == ev.time.val
        v == AmountField(ev).val
    IN  IF ev.type = "deposit" THEN {<<t, v>>}
        ELSE IF ev.type = "withdraw" THEN {<<t, -v>>}
        ELSE IF ev.type = "rewardsClaim" THEN {<<t, v>>}
        ELSE IF ev.type = "send" /\ ev.sourceDex = "" /\ ev.destinationDex = "spot"
        THEN {<<t, -v>>}
        ELSE IF ev.type = "send" /\ ev.sourceDex = "spot" /\ ev.destinationDex = ""
        THEN {<<t, v>>}
        ELSE IF ev.type = "accountClassTransfer" /\ ev.toPerp THEN {<<t, v>>}
        ELSE IF ev.type = "accountClassTransfer" THEN {<<t, -v>>}
        ELSE {}

WellFormed(events) ==
    \A i \in DOMAIN events :
        HasTimestamp(events[i]) /\ AmountField(events[i]).tag = "num"

TableFlows(events) == UNION {SignTable(events[i]) : i \in DOMAIN events}

(* C6: on a list of events that all carry a timestamp and a numeric amount,
   extract_flows raises nothing and returns, in ascending timestamp order,
   each flow of the sign table as many times as events give it, and no
   other flow.                                                              *)
C6_SignTable ==
    (pc = "f_done" /\ WellFormed(events_in)) =>
        LET out == flows_out[1].flows
            given == {<<out[k].ts, out[k].amt>> : k \in DOMAIN out}
        IN  /\ ~flows_out[1].raised
            /\ \A k \in DOMAIN out : k > 1 => out[k - 1].ts <= out[k].ts
            /\ \A f \in given \cup TableFlows(events_in) :
                 Cardinality({k \in DOMAIN out : <<out[k].ts, out[k].amt>> = f})
                   = Cardinality({i \in DOMAIN events_in : f \in SignTable(events_in[i])})

(* two events given latest first, a send out of the perp account and a send
   into it, returned as two flows                                           *)
C6_Witness ==
    /\ pc = "f_done"
    /\ WellFormed(events_in)
    /\ Len(events_in) = 2
    /\ events_in[1].time.val > events_in[2].time.val
    /\ events_in[1].type = "send" /\ events_in[1].destinationDex = "spot"
    /\ events_in[2].type = "send" /\ events_in[2].sourceDex = "spot"
    /\ Len(flows_out[1].flows) = 2
    /\ flows_out[1].flows[1].amt > 0 /\ flows_out[1].flows[2].amt < 0

(* an event of a recognised type whose amount is missing or not a number *)
Malformed(ev) == ev.type \in Recognised /\ AmountField(ev).tag # "num"

(* C7: extract_flows gives, on any list, what it gives on the list without
   its events of malformed amount: such an event emits no flow, raises no
   error and leaves the flows of the other events alone.                    *)
C7_MalformedSkipped ==
    pc = "f_done" =>
        flows_out[1] = extract_flows(SelectSeq(events_in, LAMBDA ev : ~Malformed(ev)))

(* C8: no run dies: the extraction and the normalization never leave their
   loops on an exception.                                                   *)
C8_NeverAborts == pc # "crashed"

(* C9: after a failed ledger retrieval for an address, every pair of the
   address has the no-op normalization and the loop has gone on to the next
   address.                                                                 *)
C9_LedgerFailureIsNoOp ==
    \A i \in DOMAIN log : (data # None /\ log[i].path = "api_error") =>
        /\ \A j \in DOMAIN dates : IsNoOp(Pair(i, j))
        /\ idx > i

(* a retrieval that failed on its second page, for an address with a pair of
   both sides and a ledger event inside its gap                             *)
C9_Witness ==
    \E i \in DOMAIN log : \E j \in DOMAIN dates :
        /\ data # None
        /\ log[i].path = "api_error"
        /\ log[i].requests >= 2
        /\ HasBoth(Pair(i, j))
        /\ \E k \in DOMAIN ledger[data[1].addresses[i].address] :
             LET t == ledger[data[1].addresses[i].address][k].time.val
             IN  /\ Pair(i, j).hyperliquid.last_timestamp[1] < t
                 /\ t <= Pair(i, j).artemis.last_timestamp[1]
        /\ IsNoOp(Pair(i, j))

(* C10: the pass run again on its own output, against the same ledger
   fetch, writes for every pair the hyperliquid_normalized and the
   diff_normalized the first run wrote.                                     *)
C10_Idempotent ==
    (pc = "n_done" /\ run = 2) =>
        \A i \in DOMAIN norm_file[1].addresses : \A j \in DOMAIN dates :
            LET again == norm_file[1].addresses[i].series[j]
                once == first[1].doc.addresses[i].series[j]
            IN  /\ again.hyperliquid_normalized = once.hyperliquid_normalized
                /\ again.diff_normalized = once.diff_normalized

(* a second run over a pair the first run adjusted by a flow *)
C10_Witness ==
    /\ pc = "n_done"
    /\ run = 2
    /\ \E i \in DOMAIN norm_file[1].addresses : \E j \in DOMAIN dates :
         LET again == norm_file[1].addresses[i].series[j]
         IN  /\ again.hyperliquid_normalized.flow_adjustment # 0
             /\ again.hyperliquid_normalized.events_in_gap > 0
             /\ again.hyperliquid_normalized.value # again.hyperliquid.value

(* C11: a pair with both values and both timestamps, normalized against
   flows none of which falls in its gap, has flow_adjustment 0 and a
   diff_normalized equal to its diff in abs, pct and match.                 *)
C11_EmptyGapKeepsDiff ==
    \A i \in DOMAIN log : (Normalized(i) /\ log[i].path = "ok") =>
        \A j \in DOMAIN dates : (HasBoth(Pair(i, j)) /\ GapOf(i, j) = {}) =>
            /\ Pair(i, j).hyperliquid_normalized.flow_adjustment = 0
            /\ Pair(i, j).diff_normalized = Pair(i, j).diff

(* C12: for every address of the list and whatever the observations are,
   the series of build_comparison has one entry per date of the window, from
   its first date to its last, each date one day after the one before: as
   many entries as the window has days.                                     *)
C12_OneEntryPerDate ==
    pc = "w_done" =>
        /\ Len(window_out[1]) = Len(Addresses)
        /\ \A i \in DOMAIN Addresses :
             LET series == window_out[1][i].series
                 w == window_in[1]
             IN  /\ window_out[1][i].address = lower(Addresses[i])
                 /\ Len(series) = w.end - w.start + 1
                 /\ \A j \in DOMAIN series : series[j].date = w.start + (j - 1)

(* a window of three days before which and after which an address has
   observations, and in which it has a date with one and a date with none   *)
C12_Witness ==
    /\ pc = "w_done"
    /\ window_in[1].end = window_in[1].start + 2
    /\ \E i \in DOMAIN Addresses :
         LET series == window_out[1][i].series
             a == lower(Addresses[i])
         IN  /\ bucket(window_in[1].hyperliquid, a, window_in[1].end + 1) # <<>>
             /\ bucket(window_in[1].hyperliquid, a, window_in[1].start - 1) # <<>>
             /\ series[1].hyperliquid.value # None
             /\ series[1].artemis.value = None
             /\ series[2].hyperliquid.value = None
             /\ series[3].hyperliquid.value = None

(* the three fields of a Diff are null together, and exactly when a value
   of the pair is absent                                                    *)
JointlyNull(diff, day) ==
    IF day.artemis.value = None \/ day.hyperliquid.value = None
    THEN diff.abs = None /\ diff.pct = None /\ diff.match = None
    ELSE diff.abs # None /\ diff.pct # None /\ diff.match # None

(* C13: in every persisted entry, abs, pct and match of diff are all null
   or all non-null, null exactly when the Source A or the Source B value is
   absent; and so are those of diff_normalized, on whichever path the pass
   wrote it.                                                                *)
C13_DiffJointlyNull ==
    \A doc \in Documents : \A day \in Pairs(doc) :
        /\ JointlyNull(day.diff, day)
        /\ "diff_normalized" \in DOMAIN day => JointlyNull(day.diff_normalized, day)

(* a written normalized document with an address of the normal path whose
   diff was recomputed, and an address of the failure path with one side
   absent                                                                   *)
C13_Witness ==
    /\ pc = "n_done"
    /\ \E i \in DOMAIN log : \E k \in DOMAIN log :
         LET ok_day == norm_file[1].addresses[i].series[1]
             failed_day == norm_file[1].addresses[k].series[1]
         IN  /\ log[i].path = "ok"
             /\ ok_day.diff_normalized.abs # None
             /\ ok_day.diff_normalized # ok_day.diff
             /\ log[k].path = "api_error"
             /\ failed_day.hyperliquid.value # None
             /\ failed_day.diff_normalized.abs = None

(* the content of an event: its fields, in no order *)
Content(ev) ==
    Event(ev.time, ev.type, ev.usdc, ev.amount, ev.usdcValue,
          ev.sourceDex, ev.destinationDex, ev.toPerp)

(* the contents the ledger holds with lo <= time <= hi *)
LedgerBetween(lo, hi) ==
    {ledger_in[1].events[k] :
        k \in {n \in DOMAIN ledger_in[1].events :
                 /\ lo <= ledger_in[1].events[n].time.val
                 /\ ledger_in[1].events[n].time.val <= hi}}

SignedAmount(ev) == (CHOOSE f \in SignTable(ev) : TRUE)[2]

RECURSIVE SumSigned(_)
SumSigned(E) ==
    IF E = {} THEN 0
    ELSE LET e == CHOOSE x \in E : TRUE
         IN  SignedAmount(e) + SumSigned(E \ {e})

(* C14: what get_all_ledger_events returns holds no two events of the same
   content, whatever the key order they were received in, and holds every
   content it fetched; the flows extracted from it are one per content, and
   their amounts sum to the sum over the distinct contents.                 *)
C14_DuplicatesCollapse ==
    pc = "l_done" =>
        LET out == events_out[1].events
            fetched == LedgerBetween(0, ledger_in[1].end_ms)
            flows == extract_flows(out).flows
        IN  /\ \A k1 \in DOMAIN out : \A k2 \in DOMAIN out :
                 Content(out[k1]) = Content(out[k2]) => k1 = k2
            /\ \A e \in fetched : \E k \in DOMAIN out : Content(out[k]) = e
            /\ Len(flows) = Cardinality(fetched)
            /\ sum_amounts(flows) = SumSigned(fetched)

(* three requests over three events: the event at each page boundary was
   received twice, in two responses                                         *)
C14_Witness ==
    /\ pc = "l_done"
    /\ events_out[1].requests = 3
    /\ Len(events_out[1].events) = 3
    /\ \E k \in DOMAIN events_out[1].events : events_out[1].events[k].layout = 3
    /\ sum_amounts(extract_flows(events_out[1].events).flows) # 0

(* an event extract_flows has nothing to do with: no timestamp, or a type
   that is none of the recognised ones (or no type at all)                  *)
Ignored(ev) == ev.time.tag = "absent" \/ ev.type \notin Recognised

(* C15: extract_flows gives, on any list, what it gives on the list without
   its events of unrecognised or absent type and without its events lacking
   a timestamp: such an event raises nothing, emits no flow and leaves the
   flows of the other events alone.                                         *)
C15_IgnoredEvents ==
    pc = "f_done" =>
        flows_out[1] = extract_flows(SelectSeq(events_in, LAMBDA ev : ~Ignored(ev)))

(* an event of unrecognised type whose time is not a number, next to a
   deposit that gives its flow; and a deposit without a timestamp next to
   one                                                                      *)
C15_Witness ==
    /\ pc = "f_done"
    /\ Len(events_in) = 2
    /\ \/ events_in[1].type \notin Recognised /\ events_in[1].time.tag = "bad"
       \/ events_in[1].type = "deposit" /\ events_in[1].time.tag = "absent"
             /\ events_in[1].usdc.tag = "num"
    /\ events_in[2].type = "deposit"
    /\ ~flows_out[1].raised
    /\ Len(flows_out[1].flows) = 1

(* the entries of the document, by address block and position, and the pct
   the analysis reads in each                                               *)
Entries ==
    UNION {{<<i, j>> : j \in DOMAIN series_in[1].addresses[i].series} :
             i \in DOMAIN series_in[1].addresses}

PctRead(e) ==
    LET day == series_in[1].addresses[e[1]].series[e[2]]
    IN  IF stats_out[1].normalized /\ "diff_normalized" \in DOMAIN day
        THEN day.diff_normalized.pct
        ELSE day.diff.pct

(* the first interval of the table that holds a pct *)
FirstInterval(pct) ==
    CHOOSE b \in DOMAIN BUCKETS :
        /\ BUCKETS[b].lo <= pct /\ (BUCKETS[b].hi = None \/ pct < BUCKETS[b].hi[1])
        /\ \A c \in 1..(b - 1) :
             ~(BUCKETS[c].lo <= pct /\ (BUCKETS[c].hi = None \/ pct < BUCKETS[c].hi[1]))

RECURSIVE SumCounts(_, _)
SumCounts(counts, b) ==
    IF b = 0 THEN 0 ELSE counts[b] + SumCounts(counts, b - 1)

(* C16: analyse, raw and normalized, counts every entry once: the count of
   a bucket is the number of entries whose pct is non-null and has that
   bucket as the first interval holding it, the points are the entries of
   non-null pct, the missing count is the number of entries of null pct;
   so the bucket counts sum to the number of points, and points and missing
   to the number of entries.                                                *)
C16_CountedOnce ==
    pc = "a_done" =>
        LET stats == stats_out[1].stats
            compared == {e \in Entries : PctRead(e) # None}
        IN  /\ \A b \in DOMAIN BUCKETS :
                 stats.bucket_counts[b]
                   = Cardinality({e \in compared : FirstInterval(PctRead(e)[1]) = b})
            /\ Len(stats.all_points) = Cardinality(compared)
            /\ \A e \in compared : \E k \in DOMAIN stats.all_points :
                 /\ stats.all_points[k].address = series_in[1].addresses[e[1]].address
                 /\ stats.all_points[k].pct = PctRead(e)[1]
            /\ stats.missing_count = Cardinality(Entries \ compared)
            /\ SumCounts(stats.bucket_counts, Len(BUCKETS)) = Len(stats.all_points)
            /\ Len(stats.all_points) + stats.missing_count = Cardinality(Entries)

(* the normalized analysis of three entries: one of pct 0.5 exactly, counted
   in the second bucket, one above 500, one of null pct                     *)
C16_Witness ==
    /\ pc = "a_done"
    /\ stats_out[1].normalized
    /\ Cardinality(Entries) = 3
    /\ \E e \in Entries : PctRead(e) = Some(BUCKETS[2].lo)
    /\ \E e \in Entries : PctRead(e) = Some(BUCKETS[Len(BUCKETS)].lo)
    /\ stats_out[1].stats.missing_count = 1
    /\ stats_out[1].stats.bucket_counts[2] = 1
    /\ stats_out[1].stats.bucket_counts[Len(BUCKETS)] = 1

(* C17: at every step of the extraction run and of the normalization run,
   each output file is absent, or the complete document of a finished pass:
   no step of a run, the write included, has a state in which an abort
   would leave a file that is not a complete document.                      *)
C17_NeverPartial == raw_file # Truncated /\ norm_file # Truncated

(* C18: get_all_ledger_events returns for every ledger: the pagination loop
   never comes to repeat one request for ever.                              *)
C18_AlwaysReturns == pc # "l_hung"

(* C19: when get_all_ledger_events returns, every event the ledger holds
   with start_ms <= time <= end_ms is in the result, once.                  *)
C19_EveryEventOnce ==
    pc = "l_done" =>
        \A e \in LedgerBetween(ledger_in[1].start_ms, ledger_in[1].end_ms) :
            Cardinality({k \in DOMAIN events_out[1].events :
                           Content(events_out[1].events[k]) = e}) = 1

(* a ledger of three events up to end_ms, two of them from start_ms on,
   fetched in three requests: two full pages, each ending on an event the
   next page starts with                                                    *)
C19_Witness ==
    /\ pc = "l_done"
    /\ ledger_in[1].start_ms = 2
    /\ events_out[1].requests = 3
    /\ Cardinality(LedgerBetween(0, ledger_in[1].end_ms)) = 3
    /\ Cardinality(LedgerBetween(ledger_in[1].start_ms, ledger_in[1].end_ms)) = 2
    /\ Len(events_out[1].events) = 3

(* C20: two runs that give an address the same observations, the same
   ledger events and the same ledger fetch leave it the same raw series and
   the same normalized series, whatever the other address has, whether its
   ledger fetch fails, and in whichever order the addresses are listed.     *)
C20_NonInterference ==
    pc = "p_done" =>
        /\ pair_out[1][1].raw = pair_out[1][2].raw
        /\ pair_out[1][1].normalized = pair_out[1][2].normalized

(* the fields the pass may write in a series entry *)
AddedFields == {"hyperliquid_normalized", "diff_normalized"}

(* a document in memory or dumped by the pass keeps the frame of the raw one *)
KeepsFrame(doc, raw) ==
    /\ DOMAIN doc = DOMAIN raw
    /\ doc.days = raw.days
    /\ Len(doc.addresses) = Len(raw.addresses)
    /\ \A i \in DOMAIN raw.addresses :
         LET block == doc.addresses[i]
             raw_block == raw.addresses[i]
         IN  /\ DOMAIN block = DOMAIN raw_block
             /\ block.address = raw_block.address
             /\ Len(block.series) = Len(raw_block.series)
             /\ \A j \in DOMAIN raw_block.series :
                  LET day == block.series[j]
                      raw_day == raw_block.series[j]
                  IN  /\ DOMAIN raw_day \subseteq DOMAIN day
                      /\ DOMAIN day \subseteq DOMAIN raw_day \cup AddedFields
                      /\ \A f \in DOMAIN raw_day : day[f] = raw_day[f]
                      /\ "hyperliquid_normalized" \in DOMAIN day =>
                           /\ day.hyperliquid_normalized.last_timestamp
                                = raw_day.hyperliquid.last_timestamp
                           /\ day.hyperliquid_normalized.source_date
                                = raw_day.hyperliquid.source_date

(* C21: the normalization pass only adds fields.  At every point of the
   pass and in the document it dumps, on the normal path, for an address
   without timestamps and after a ledger failure, the date, artemis,
   hyperliquid and diff records of every series entry, the list of
   addresses and the day count are those of the raw document; only
   hyperliquid_normalized and diff_normalized are added and generated_at
   set, and hyperliquid_normalized carries the last_timestamp and the
   source_date of the raw hyperliquid record.                               *)
C21_OnlyAddsFields ==
    /\ (data # None /\ raw_file # None /\ raw_file # Truncated) =>
          KeepsFrame(data[1], raw_file[1])
    /\ (norm_file # None /\ norm_file # Truncated) =>
          /\ KeepsFrame(norm_file[1], raw_file[1])
          /\ \A i \in DOMAIN norm_file[1].addresses :
               \A j \in DOMAIN norm_file[1].addresses[i].series :
                   AddedFields \subseteq DOMAIN norm_file[1].addresses[i].series[j]

C21_Witness ==
    /\ pc = "n_done"
    /\ norm_file[1].generated_at # raw_file[1].generated_at
    /\ \E i \in DOMAIN log : \E j \in DOMAIN norm_file[1].addresses[i].series :
         /\ log[i].path = "ok"
         /\ norm_file[1].addresses[i].series[j].hyperliquid_normalized.events_in_gap > 0
         /\ norm_file[1].addresses[i].series[j].hyperliquid_normalized.value
              # raw_file[1].addresses[i].series[j].hyperliquid.value
    /\ \E i \in DOMAIN log : log[i].path \in {"api_error", "no_timestamps"}

(* a pct of the diff formula within [0, 200] percent, in units of 1e-4 percent *)
InRange(d) == d.pct # None => 0 <= d.pct[1] /\ d.pct[1] <= 200 * 10000

(* the denominator of a diff whose two values are there *)
ZeroDenominator(art_value, hl_value) ==
    art_value # None /\ hl_value # None /\ art_value[1] = 0 /\ hl_value[1] = 0

(* C22: every non-null pct of the raw diff and of diff_normalized lies in
   [0, 200] percent, for values of either sign; where both values are zero
   pct is 0 and match is true; so the analysis counts no pair in the buckets
   [250, 500) and [500, inf), and every pair with a pct in some bucket.      *)
C22_PctRange ==
    pc = "d_done" =>
        LET in == diff_in[1]
            day == diff_out[1].day
        IN  /\ InRange(day.diff)
            /\ InRange(day.diff_normalized)
            /\ ZeroDenominator(in.artemis, in.hyperliquid) =>
                  day.diff.pct = Some(0) /\ day.diff.match = Some(TRUE)
            /\ (/\ in.artemis # None /\ in.hyperliquid # None
                /\ in.artemis[1] = 0 /\ in.hyperliquid[1] + in.net_flow = 0) =>
                  day.diff_normalized.pct = Some(0) /\ day.diff_normalized.match = Some(TRUE)
            /\ \A s \in {diff_out[1].stats, diff_out[1].stats_normalized} :
                  /\ \A b \in DOMAIN BUCKETS :
                        BUCKETS[b].lo >= 250 * 10000 => s.bucket_counts[b] = 0
                  /\ Len(s.all_points) = SumCounts(s.bucket_counts, Len(BUCKETS))

C22_Witness ==
    /\ pc = "d_done"
    /\ diff_in[1].artemis # None /\ diff_in[1].hyperliquid # None
    /\ diff_in[1].artemis[1] < 0
    /\ diff_in[1].hyperliquid[1] = -diff_in[1].artemis[1]
    /\ diff_in[1].net_flow = MaxValue
    /\ diff_out[1].day.diff.pct = Some(200 * 10000)
    /\ diff_out[1].day.diff_normalized.pct # None
    /\ diff_out[1].day.diff_normalized.pct[1] > 100 * 10000
    /\ diff_out[1].stats.bucket_counts[8] = 1

====
